---- MODULE Spec2Model ----
(***************************************************************************)
(* Model of src/cleaning_functions.py: the five DataFrame cleaning steps   *)
(* and the driver main() that chains them between read_csv and to_csv.     *)
(*                                                                         *)
(* A Python str is a sequence of one-character strings, so that replace,   *)
(* lower, split, int() and float() are computed character by character.    *)
(* A number is an exact fraction n/d in lowest terms (d > 0).  A cell of a *)
(* DataFrame is a str, a number or NaN (the missing-value marker); a       *)
(* column has a pandas dtype: "object", "float64" or "int64".              *)
(***************************************************************************)
EXTENDS Integers, Sequences, FiniteSets, TLC

VARIABLES
    pc,        \* the statement of main() about to run, "done", "aborted", or
               \* "call" when the functions are called on their own
    file,      \* the content of 'your_file.csv', or NoFile
    table,     \* insurance_df
    prev,      \* insurance_df as it was before the last step ran
    trace,     \* the steps started so far, in order
    failedAt,  \* the step whose exception ended the run, or "none"
    output,    \* the table written to 'cleaned_insurance_data.csv', or NoTable
    notice     \* whether the completion message was printed

vars == <<pc, file, table, prev, trace, failedAt, output, notice>>

----------------------------------------------------------------------------
(* Bounds of the model *)

MaxRows == 2
MaxNameLen == 3
MaxNameCols == 1
MaxCalls == 2
MaxFillRows == 4

----------------------------------------------------------------------------
(* Characters and words *)

UpperCase == <<"A","B","C","D","E","F","G","H","I","J","K","L","M",
               "N","O","P","Q","R","S","T","U","V","W","X","Y","Z">>
LowerCase == <<"a","b","c","d","e","f","g","h","i","j","k","l","m",
               "n","o","p","q","r","s","t","u","v","w","x","y","z">>
Digits == <<"0","1","2","3","4","5","6","7","8","9">>

IsDigit(c) == \E i \in DOMAIN Digits : Digits[i] = c
DigitVal(c) == (CHOOSE i \in DOMAIN Digits : Digits[i] = c) - 1

wF == <<"F">>
wM == <<"M">>
wFemale == <<"F","e","m","a","l","e">>
wmale == <<"m","a","l","e">>
wMale == <<"M","a","l","e">>
wFemal == <<"F","e","m","a","l">>
wFEMALE == <<"F","E","M","A","L","E">>
wAZ == <<"A","Z">>
wCali == <<"C","a","l","i">>
wWA == <<"W","A">>
wArizona == <<"A","r","i","z","o","n","a">>
wCalifornia == <<"C","a","l","i","f","o","r","n","i","a">>
wWashington == <<"W","a","s","h","i","n","g","t","o","n">>
wNevada == <<"N","e","v","a","d","a">>
wBachelors == <<"B","a","c","h","e","l","o","r","s">>
wBachelor == <<"B","a","c","h","e","l","o","r">>
wHighSchool == <<"H","i","g","h"," ","S","c","h","o","o","l"," ","o","r"," ",
                 "B","e","l","o","w">>
wSportsCar == <<"S","p","o","r","t","s"," ","C","a","r">>
wLuxurySUV == <<"L","u","x","u","r","y"," ","S","U","V">>
wLuxuryCar == <<"L","u","x","u","r","y"," ","C","a","r">>
wLuxury == <<"L","u","x","u","r","y">>
wFourDoorCar == <<"F","o","u","r","-","D","o","o","r"," ","C","a","r">>

\* column names as main() needs them after clean_column_names
cGender == <<"g","e","n","d","e","r">>
cState == <<"s","t","a","t","e">>
cEducation == <<"e","d","u","c","a","t","i","o","n">>
cClv == <<"c","u","s","t","o","m","e","r","_","l","i","f","e","t","i","m","e",
          "_","v","a","l","u","e">>
cVehicleClass == <<"v","e","h","i","c","l","e","_","c","l","a","s","s">>
cComplaints == <<"n","u","m","b","e","r","_","o","f","_","o","p","e","n","_",
                 "c","o","m","p","l","a","i","n","t","s">>
cCustomer == <<"c","u","s","t","o","m","e","r">>

----------------------------------------------------------------------------
(* Python str methods *)

RECURSIVE StrReplace(_, _, _)
\* s.replace(old, new), old non-empty: leftmost non-overlapping occurrences
StrReplace(s, old, new) ==
    IF Len(s) < Len(old) THEN s
    ELSE IF SubSeq(s, 1, Len(old)) = old
         THEN new \o StrReplace(SubSeq(s, Len(old) + 1, Len(s)), old, new)
         ELSE <<Head(s)>> \o StrReplace(Tail(s), old, new)

LowerChar(c) ==
    IF \E i \in DOMAIN UpperCase : UpperCase[i] = c
    THEN LowerCase[CHOOSE i \in DOMAIN UpperCase : UpperCase[i] = c]
    ELSE c

\* s.lower()
StrLower(s) == [i \in DOMAIN s |-> LowerChar(s[i])]

RECURSIVE StrSplit(_, _)
\* s.split(sep) for a one-character sep: the list of segments
StrSplit(s, sep) ==
    IF \A i \in DOMAIN s : s[i] # sep THEN <<s>>
    ELSE LET i == CHOOSE k \in DOMAIN s :
                      s[k] = sep /\ \A m \in 1..(k - 1) : s[m] # sep
         IN <<SubSeq(s, 1, i - 1)>> \o StrSplit(SubSeq(s, i + 1, Len(s)), sep)

----------------------------------------------------------------------------
(* Numbers *)

Abs(x) == IF x < 0 THEN -x ELSE x

RECURSIVE Gcd(_, _)
Gcd(a, b) == IF b = 0 THEN a ELSE Gcd(b, a % b)

RECURSIVE Pow10(_)
Pow10(k) == IF k = 0 THEN 1 ELSE 10 * Pow10(k - 1)

RECURSIVE DigitsValue(_)
\* the value of a string of decimal digits ("" counts 0)
DigitsValue(s) ==
    IF s = <<>> THEN 0
    ELSE 10 * DigitsValue(SubSeq(s, 1, Len(s) - 1)) + DigitVal(s[Len(s)])

AllDigits(s) == \A i \in DOMAIN s : IsDigit(s[i])

----------------------------------------------------------------------------
(* Cells *)

NaN == [t |-> "nan", s |-> <<>>, n |-> 0, d |-> 1]
Str(s) == [t |-> "str", s |-> s, n |-> 0, d |-> 1]
Num(n, d) ==
    LET g == Gcd(Abs(n), d)
    IN [t |-> "num", s |-> <<>>, n |-> n \div g, d |-> d \div g]

IsStr(x) == x.t = "str"
IsNum(x) == x.t = "num"
IsNaN(x) == x.t = "nan"
IsWhole(x) == IsNum(x) /\ x.d = 1

RatLess(x, y) == x.n * y.d < y.n * x.d

\* int(x) of a float: truncation toward zero
Trunc(x) == IF x.n >= 0 THEN Num(x.n \div x.d, 1)
            ELSE Num(-((-x.n) \div x.d), 1)

\* int(s): over the characters modelled (digits, '.', '/', '%', letters) a str
\* is an integer literal exactly when it is a non-empty string of digits
IntOk(s) == s # <<>> /\ AllDigits(s)
IntOf(s) == Num(DigitsValue(s), 1)

\* float(s): over the same characters a str is a float literal exactly when it
\* is digits with at most one '.', and has at least one digit
FloatOk(s) ==
    /\ \A i \in DOMAIN s : IsDigit(s[i]) \/ s[i] = "."
    /\ Cardinality({i \in DOMAIN s : s[i] = "."}) <= 1
    /\ \E i \in DOMAIN s : IsDigit(s[i])
FloatOf(s) ==
    LET parts == StrSplit(s, ".")
        frac == IF Len(parts) > 1 THEN parts[2] ELSE <<>>
    IN Num(DigitsValue(parts[1]) * Pow10(Len(frac)) + DigitsValue(frac),
           Pow10(Len(frac)))

----------------------------------------------------------------------------
(* DataFrames *)

NoTable == [columns |-> <<>>, dtypes |-> <<>>, rows |-> <<>>]
\* no readable 'your_file.csv'
NoFile == [header |-> <<>>, rows |-> <<>>]

NumericDtypes == {"float64", "int64"}

NRows(t) == Len(t.rows)
NCols(t) == Len(t.columns)

HasCol(t, name) == \E j \in DOMAIN t.columns : t.columns[j] = name
\* df[name] where exactly one column carries the name
ColIdx(t, name) == CHOOSE j \in DOMAIN t.columns : t.columns[j] = name
Column(t, j) == [i \in DOMAIN t.rows |-> t.rows[i][j]]
\* df[name] = series
SetColumn(t, j, dtype, cells) ==
    [t EXCEPT !.dtypes[j] = dtype,
              !.rows = [i \in DOMAIN t.rows |->
                           [t.rows[i] EXCEPT ![j] = cells[i]]]]

\* the outcome of a step: the exception raised (or "none") and the DataFrame,
\* which the steps mutate in place, as the step left it
Ok(t) == [err |-> "none", t |-> t]
Raise(e, t) == [err |-> e, t |-> t]

\* the dtype pandas gives a column made of these Python objects
InferDtype(cells) ==
    IF \A i \in DOMAIN cells : IsWhole(cells[i]) THEN "int64"
    ELSE IF \A i \in DOMAIN cells : ~IsStr(cells[i]) THEN "float64"
    ELSE "object"

\* pd.read_csv: a column whose fields are all numeric or empty is parsed
\* (int64 when every field is an integer, float64 with NaN for the empty
\* fields otherwise); any other column keeps its fields as str, NaN for empty
read_csv(f) ==
    LET texts(j) == [i \in DOMAIN f.rows |-> f.rows[i][j]]
        numeric(j) == \A i \in DOMAIN f.rows :
                          texts(j)[i] = <<>> \/ FloatOk(texts(j)[i])
        whole(j) == \A i \in DOMAIN f.rows : IntOk(texts(j)[i])
        cell(x, j) == IF x = <<>> THEN NaN
                      ELSE IF whole(j) THEN IntOf(x)
                      ELSE IF numeric(j) THEN FloatOf(x)
                      ELSE Str(x)
    IN [columns |-> f.header,
        dtypes |-> [j \in DOMAIN f.header |->
                       IF whole(j) THEN "int64"
                       ELSE IF numeric(j) THEN "float64" ELSE "object"],
        rows |-> [i \in DOMAIN f.rows |->
                     [j \in DOMAIN f.header |-> cell(f.rows[i][j], j)]]]

----------------------------------------------------------------------------
(* clean_column_names *)

\* lowercasing first, so that the replacement has to look for 'st'
clean_name_lower_first(name) ==
    StrReplace(StrReplace(StrLower(name), <<"s","t">>, cState), <<" ">>, <<"_">>)

clean_name(name) ==
    StrLower(StrReplace(StrReplace(name, <<"S","T">>, cState), <<" ">>, <<"_">>))

clean_column_names(t) ==
    [t EXCEPT !.columns = [j \in DOMAIN t.columns |-> clean_name(t.columns[j])]]

----------------------------------------------------------------------------
(* clean_invalid_values *)

\* 'Femal' corrected to 'Female', itself a value to correct
gender_map_typo ==
    (wF :> wF) @@ (wM :> wM) @@ (wFemale :> wF) @@ (wmale :> wM) @@
    (wMale :> wM) @@ (wFemal :> wFemale)

gender_map ==
    (wF :> wF) @@ (wM :> wM) @@ (wFemale :> wF) @@ (wmale :> wM) @@
    (wMale :> wM) @@ (wFemal :> wF)

state_name == (wAZ :> wArizona) @@ (wCali :> wCalifornia) @@ (wWA :> wWashington)

education_map == (wBachelors :> wBachelor)

vehicle_class_map ==
    (wSportsCar :> wLuxury) @@ (wLuxurySUV :> wLuxury) @@ (wLuxuryCar :> wLuxury)

percent_map == (<<"%">> :> <<>>)

\* Series.map in place of Series.replace: a value that is no key becomes NaN
ReplaceOrNaN(x, mapping) ==
    IF IsStr(x) /\ x.s \in DOMAIN mapping THEN Str(mapping[x.s]) ELSE NaN

\* Series.replace on one value: a value equal to a key becomes the key's image
Replace(x, mapping) ==
    IF IsStr(x) /\ x.s \in DOMAIN mapping THEN Str(mapping[x.s]) ELSE x

\* df[name] = df[name].replace(mapping)
replace_column(t, name, mapping) ==
    IF ~HasCol(t, name) THEN Raise("KeyError", t)
    ELSE LET j == ColIdx(t, name)
         IN Ok(SetColumn(t, j, t.dtypes[j],
                         [i \in DOMAIN t.rows |-> Replace(t.rows[i][j], mapping)]))

\* Series.astype(float) on one value
AsFloatOk(x) == IsStr(x) => FloatOk(x.s)
AsFloat(x) == IF IsStr(x) THEN FloatOf(x.s) ELSE x

\* pd.to_numeric(..., errors='coerce') in place of astype(float)
clean_lifetime_value_coerce(t) ==
    IF ~HasCol(t, cClv) THEN Raise("KeyError", t)
    ELSE LET j == ColIdx(t, cClv)
             replaced == [i \in DOMAIN t.rows |-> Replace(t.rows[i][j], percent_map)]
         IN Ok(SetColumn(t, j, "float64",
                         [i \in DOMAIN t.rows |->
                             IF AsFloatOk(replaced[i]) THEN AsFloat(replaced[i])
                             ELSE NaN]))

\* df[clv] = df[clv].replace('%', '', regex=False).astype(float)
clean_lifetime_value(t) ==
    IF ~HasCol(t, cClv) THEN Raise("KeyError", t)
    ELSE LET j == ColIdx(t, cClv)
             replaced == [i \in DOMAIN t.rows |-> Replace(t.rows[i][j], percent_map)]
         IN IF \E i \in DOMAIN t.rows : ~AsFloatOk(replaced[i])
            THEN Raise("ValueError", t)
            ELSE Ok(SetColumn(t, j, "float64",
                              [i \in DOMAIN t.rows |-> AsFloat(replaced[i])]))

GenderStep(t) == replace_column(t, cGender, gender_map)
StateStep(t) == replace_column(t, cState, state_name)
EducationStep(t) == replace_column(t, cEducation, education_map)
VehicleStep(t) == replace_column(t, cVehicleClass, vehicle_class_map)

\* the five assignments in order; the first that raises ends the function
clean_invalid_values(t) ==
    LET r1 == GenderStep(t)
        r2 == IF r1.err # "none" THEN r1 ELSE StateStep(r1.t)
        r3 == IF r2.err # "none" THEN r2 ELSE EducationStep(r2.t)
        r4 == IF r3.err # "none" THEN r3 ELSE clean_lifetime_value(r3.t)
    IN IF r4.err # "none" THEN r4 ELSE VehicleStep(r4.t)

----------------------------------------------------------------------------
(* formatting_data_types *)

\* pd.to_numeric(series, errors='coerce')
to_numeric(t) ==
    IF ~HasCol(t, cClv) THEN Raise("KeyError", t)
    ELSE LET j == ColIdx(t, cClv)
             coerce(x) == IF ~IsStr(x) THEN x
                          ELSE IF FloatOk(x.s) THEN FloatOf(x.s) ELSE NaN
             cells == [i \in DOMAIN t.rows |-> coerce(t.rows[i][j])]
         IN Ok(SetColumn(t, j,
                         IF t.dtypes[j] = "object" THEN InferDtype(cells)
                         ELSE t.dtypes[j],
                         cells))

\* lambda x: int(x.split('/')[1]) if isinstance(x, str) else x
ComplaintsErr(x) ==
    IF ~IsStr(x) THEN "none"
    ELSE IF Len(StrSplit(x.s, "/")) < 2 THEN "IndexError"
    ELSE IF ~IntOk(StrSplit(x.s, "/")[2]) THEN "ValueError"
    ELSE "none"
\* index 0 in place of index 1
ComplaintsValueFirst(x) == IF IsStr(x) THEN IntOf(StrSplit(x.s, "/")[1]) ELSE x
ComplaintsValue(x) == IF IsStr(x) THEN IntOf(StrSplit(x.s, "/")[2]) ELSE x

\* df[complaints] = df[complaints].apply(lambda)
format_complaints(t) ==
    IF ~HasCol(t, cComplaints) THEN Raise("KeyError", t)
    ELSE LET j == ColIdx(t, cComplaints)
         IN IF \E i \in DOMAIN t.rows : ComplaintsErr(t.rows[i][j]) # "none"
            THEN LET i == CHOOSE k \in DOMAIN t.rows :
                              /\ ComplaintsErr(t.rows[k][j]) # "none"
                              /\ \A m \in 1..(k - 1) :
                                     ComplaintsErr(t.rows[m][j]) = "none"
                 IN Raise(ComplaintsErr(t.rows[i][j]), t)
            ELSE LET cells == [i \in DOMAIN t.rows |->
                                  ComplaintsValue(t.rows[i][j])]
                 IN Ok(SetColumn(t, j,
                                 IF t.dtypes[j] = "object" THEN InferDtype(cells)
                                 ELSE t.dtypes[j],
                                 cells))

formatting_data_types(t) ==
    LET r1 == to_numeric(t)
    IN IF r1.err # "none" THEN r1 ELSE format_complaints(r1.t)

----------------------------------------------------------------------------
(* fill_missing_values and convert_numeric_to_integers *)

\* df.select_dtypes(include=['float64', 'int']).columns
numerical_cols(t) == {j \in DOMAIN t.columns : t.dtypes[j] \in NumericDtypes}

\* the lower middle value, with no averaging for an even count
MedianLow(cells) ==
    LET vals == SortSeq(SelectSeq(cells, IsNum), RatLess)
        k == Len(vals)
    IN IF k = 0 THEN NaN ELSE vals[(k + 1) \div 2]

\* Series.median(): of the non-missing values, NaN when there is none
Median(cells) ==
    LET vals == SortSeq(SelectSeq(cells, IsNum), RatLess)
        k == Len(vals)
    IN IF k = 0 THEN NaN
       ELSE IF k % 2 = 1 THEN vals[(k + 1) \div 2]
       ELSE LET a == vals[k \div 2]
                b == vals[(k \div 2) + 1]
            IN Num(a.n * b.d + b.n * a.d, 2 * a.d * b.d)

\* dropna on the numeric columns in place of fillna
fill_missing_values_dropna(t) ==
    [t EXCEPT !.rows =
        SelectSeq(t.rows,
                  LAMBDA r : \A j \in numerical_cols(t) : ~IsNaN(r[j]))]

fill_missing_values(t) ==
    [t EXCEPT !.rows =
        [i \in DOMAIN t.rows |->
            [j \in DOMAIN t.columns |->
                IF j \in numerical_cols(t) /\ IsNaN(t.rows[i][j])
                THEN Median(Column(t, j))
                ELSE t.rows[i][j]]]]

convert_numeric_to_integers(t) ==
    IF \E j \in numerical_cols(t) : \E i \in DOMAIN t.rows : IsNaN(t.rows[i][j])
    THEN Raise("ValueError", t)
    ELSE Ok([t EXCEPT
               !.dtypes = [j \in DOMAIN t.columns |->
                              IF j \in numerical_cols(t) THEN "int64"
                              ELSE t.dtypes[j]],
               !.rows = [i \in DOMAIN t.rows |->
                            [j \in DOMAIN t.columns |->
                                IF j \in numerical_cols(t)
                                THEN Trunc(t.rows[i][j])
                                ELSE t.rows[i][j]]]])

----------------------------------------------------------------------------
(* The input files of the model *)

t1 == <<"1">>
t5 == <<"5">>
t897_2 == <<"8","9","7",".","2">>
t897_2pct == <<"8","9","7",".","2","%">>
t1_0_00 == <<"1","/","0","/","0","0">>
t1_5_00 == <<"1","/","5","/","0","0">>

ScenarioHeader ==
    << <<"C","u","s","t","o","m","e","r">>,
       <<"S","T">>,
       <<"G","E","N","D","E","R">>,
       <<"E","d","u","c","a","t","i","o","n">>,
       <<"C","u","s","t","o","m","e","r"," ","L","i","f","e","t","i","m","e",
         " ","V","a","l","u","e">>,
       <<"V","e","h","i","c","l","e"," ","C","l","a","s","s">>,
       <<"N","u","m","b","e","r"," ","o","f"," ","O","p","e","n"," ",
         "C","o","m","p","l","a","i","n","t","s">> >>

\* the same header with the state column spelt STATE
StateHeader == [ScenarioHeader EXCEPT ![2] = <<"S","T","A","T","E">>]

Row(customer, st, gender, education, clv, vehicle, complaints) ==
    <<customer, st, gender, education, clv, vehicle, complaints>>

ScenarioRow == Row(t1, wAZ, wMale, wBachelors, t897_2pct, wLuxurySUV, t1_0_00)

\* <<state, gender, education, vehicle class>>
CategoryValues ==
    { <<wAZ, wMale, wBachelors, wLuxurySUV>>,
      <<wCali, wFemale, wBachelor, wSportsCar>>,
      <<wWA, wmale, wHighSchool, wLuxuryCar>>,
      <<wArizona, wFemal, wBachelors, wLuxury>>,
      <<wNevada, wF, wBachelor, wFourDoorCar>>,
      <<wCali, wM, wHighSchool, wLuxurySUV>>,
      <<wWA, wFEMALE, wBachelors, wSportsCar>>,
      <<<<>>, <<>>, wBachelor, <<>>>> }

ClvTexts == { <<>>, <<"%">>, <<"5">>, <<".">>, <<"5","%">>, <<"2",".","5">> }

ComplaintsTexts ==
    { <<>>, t5, t1_5_00, <<"1","/","5">>, <<"1","/","/","0","0">>,
      <<"1","/","x","/","0","0">> }

RowSet ==
    {ScenarioRow}
    \cup {Row(t1, c[1], c[2], c[3], t897_2, c[4], t1_0_00) : c \in CategoryValues}
    \cup {Row(t1, wAZ, wMale, wBachelors, x, wLuxurySUV, t1_0_00) : x \in ClvTexts}
    \cup {Row(t1, wAZ, wMale, wBachelors, t897_2, wLuxurySUV, x) :
             x \in ComplaintsTexts}
    \cup {Row(<<>>, wAZ, wMale, wBachelors, t897_2, wLuxurySUV, t1_0_00)}

InputFiles ==
    {[header |-> ScenarioHeader, rows |-> rs] :
        rs \in UNION {[1..k -> RowSet] : k \in 1..MaxRows}}
    \cup {[header |-> StateHeader, rows |-> <<r>>] : r \in RowSet}
    \cup {NoFile}

----------------------------------------------------------------------------
(* main *)

\* every statement wrapped in a try/except that goes on
NextPcSwallow(r, next) == next

\* an exception in a statement of main() propagates: nothing after it runs
NextPc(r, next) == IF r.err = "none" THEN next ELSE "aborted"

RunStep(step, r, next) ==
    /\ pc = step
    /\ pc' = NextPc(r, next)
    /\ table' = r.t
    /\ prev' = table
    /\ trace' = Append(trace, step)
    /\ failedAt' = IF r.err = "none" THEN failedAt ELSE step
    /\ UNCHANGED <<file, output, notice>>

Init ==
    /\ pc = "read_csv"
    /\ file \in InputFiles
    /\ table = NoTable
    /\ prev = NoTable
    /\ trace = <<>>
    /\ failedAt = "none"
    /\ output = NoTable
    /\ notice = FALSE

Load ==
    RunStep("read_csv",
            IF file = NoFile THEN Raise("FileNotFoundError", table)
            ELSE Ok(read_csv(file)),
            "clean_column_names")

CleanColumnNames ==
    RunStep("clean_column_names", Ok(clean_column_names(table)),
            "clean_invalid_values")

CleanInvalidValues ==
    RunStep("clean_invalid_values", clean_invalid_values(table),
            "formatting_data_types")

FormattingDataTypes ==
    RunStep("formatting_data_types", formatting_data_types(table),
            "fill_missing_values")

FillMissingValues ==
    RunStep("fill_missing_values", Ok(fill_missing_values(table)),
            "convert_numeric_to_integers")

ConvertNumericToIntegers ==
    RunStep("convert_numeric_to_integers", convert_numeric_to_integers(table),
            "to_csv")

Write ==
    /\ pc = "to_csv"
    /\ pc' = "print"
    /\ output' = table
    /\ trace' = Append(trace, "to_csv")
    /\ UNCHANGED <<file, table, prev, failedAt, notice>>

Notice ==
    /\ pc = "print"
    /\ pc' = "done"
    /\ notice' = TRUE
    /\ trace' = Append(trace, "print")
    /\ UNCHANGED <<file, table, prev, failedAt, output>>

Next ==
    \/ Load
    \/ CleanColumnNames
    \/ CleanInvalidValues
    \/ FormattingDataTypes
    \/ FillMissingValues
    \/ ConvertNumericToIntegers
    \/ Write
    \/ Notice

Spec == Init /\ [][Next]_vars

TypeOK ==
    /\ pc \in {"read_csv", "clean_column_names", "clean_invalid_values",
               "formatting_data_types", "fill_missing_values",
               "convert_numeric_to_integers", "to_csv", "print", "done",
               "aborted", "call"}
    /\ notice \in BOOLEAN
    /\ \A i \in DOMAIN table.rows : Len(table.rows[i]) = Len(table.columns)
    /\ Len(table.dtypes) = Len(table.columns)

----------------------------------------------------------------------------
(* The functions called on their own, outside main() *)

CallStep(step, r) ==
    /\ pc = "call"
    /\ Len(trace) < MaxCalls
    /\ table' = r.t
    /\ prev' = table
    /\ trace' = Append(trace, step)
    /\ failedAt' = IF r.err = "none" THEN failedAt ELSE step
    /\ UNCHANGED <<pc, file, output, notice>>

NameChars == {"S", "T", "s", " "}

Names == UNION {[1..k -> NameChars] : k \in 0..MaxNameLen}

\* a DataFrame with the given column names and no rows yet
EmptyFrame(names) ==
    [columns |-> names, dtypes |-> [j \in DOMAIN names |-> "object"], rows |-> <<>>]

InitNames ==
    /\ pc = "call"
    /\ file \in {[header |-> h, rows |-> <<>>] :
                    h \in UNION {[1..k -> Names] : k \in 1..MaxNameCols}}
    /\ table = EmptyFrame(file.header)
    /\ prev = NoTable
    /\ trace = <<>>
    /\ failedAt = "none"
    /\ output = NoTable
    /\ notice = FALSE

CallCleanColumnNames ==
    CallStep("clean_column_names", Ok(clean_column_names(table)))

NextNames == CallCleanColumnNames

SpecNames == InitNames /\ [][NextNames]_vars

FillCells == {NaN, Num(0, 1), Num(1, 1), Num(5, 2)}

\* a float64 column and an object column
FillTables ==
    {[columns |-> <<cClv, cGender>>,
      dtypes |-> <<"float64", "object">>,
      rows |-> [i \in 1..k |-> <<c[i], g[i]>>]] :
        <<k, c, g>> \in UNION {{k} \X [1..k -> FillCells]
                                  \X [1..k -> {Str(wM), NaN}] :
                                   k \in 1..MaxFillRows}}

InitFill ==
    /\ pc = "call"
    /\ file = NoFile
    /\ table \in FillTables
    /\ prev = NoTable
    /\ trace = <<>>
    /\ failedAt = "none"
    /\ output = NoTable
    /\ notice = FALSE

CallFillMissingValues ==
    CallStep("fill_missing_values", Ok(fill_missing_values(table)))

NextFill == CallFillMissingValues

SpecFill == InitFill /\ [][NextFill]_vars

----------------------------------------------------------------------------
(* Vocabulary of the properties *)

Steps == {"clean_column_names", "clean_invalid_values", "formatting_data_types",
          "fill_missing_values", "convert_numeric_to_integers"}

Order == <<"read_csv", "clean_column_names", "clean_invalid_values",
           "formatting_data_types", "fill_missing_values",
           "convert_numeric_to_integers", "to_csv", "print">>

\* the step that ran last, and whether it returned or raised
Ran(step) == trace # <<>> /\ trace[Len(trace)] = step
Returned(step) == Ran(step) /\ failedAt = "none"

StripPercent(s) == SelectSeq(s, LAMBDA c : c # "%")

RequiredCols == {cGender, cState, cEducation, cClv, cVehicleClass}
HasRequired(t) == \A c \in RequiredCols : HasCol(t, c)

\* the cell of row i in the named column
Cell(t, i, name) == t.rows[i][ColIdx(t, name)]

ScenarioFile == [header |-> ScenarioHeader, rows |-> <<ScenarioRow>>]
ExpectedColumns ==
    <<cCustomer, cState, cGender, cEducation, cClv, cVehicleClass, cComplaints>>
ExpectedRow ==
    <<Num(1, 1), Str(wArizona), Str(wM), Str(wBachelor), Num(897, 1),
      Str(wLuxury), Num(0, 1)>>

----------------------------------------------------------------------------
(* C1: the full pipeline on the scenario file (one row 1, AZ, Male,         *)
(* Bachelors, 897.2%, Luxury SUV, 1/0/00) completes without error and       *)
(* writes the normalized columns with the row 1, Arizona, M, Bachelor, 897, *)
(* Luxury, 0.                                                               *)
C1_Scenario ==
    (file = ScenarioFile /\ pc \in {"done", "aborted"})
        => /\ pc = "done"
           /\ output.columns = ExpectedColumns
           /\ output.rows = <<ExpectedRow>>

(* C2: clean_invalid_values removes every '%' of a textual                  *)
(* customer_lifetime_value and stores the remainder parsed as a number:     *)
(* when every textual value is a number once its '%' are removed, the step  *)
(* returns and each such cell holds that number ("897.2%" becomes 897.2).   *)
C2_PercentStripped ==
    ( /\ Ran("clean_invalid_values")
      /\ HasRequired(prev)
      /\ \A i \in DOMAIN prev.rows :
            IsStr(Cell(prev, i, cClv))
                => FloatOk(StripPercent(Cell(prev, i, cClv).s)) )
        => /\ failedAt = "none"
           /\ \A i \in DOMAIN prev.rows :
                 IsStr(Cell(prev, i, cClv))
                     => Cell(table, i, cClv)
                            = FloatOf(StripPercent(Cell(prev, i, cClv).s))

\* a textual customer_lifetime_value that is no number without its '%'
Malformed(x) == IsStr(x) /\ ~FloatOk(StripPercent(x.s))

(* C3 as stated: a customer_lifetime_value that is not numeric after        *)
(* '%'-stripping never makes clean_invalid_values fail.                     *)
C3_Original ==
    ( /\ Ran("clean_invalid_values")
      /\ HasRequired(prev)
      /\ \E i \in DOMAIN prev.rows : Malformed(Cell(prev, i, cClv)) )
        => failedAt = "none"

(* C3 amended: a customer_lifetime_value that is not numeric after          *)
(* '%'-stripping makes clean_invalid_values raise, which ends the run at    *)
(* that step with nothing written; formatting_data_types never fails on     *)
(* customer_lifetime_value: when it raises, a textual                       *)
(* number_of_open_complaints without an integer second segment is the cause.*)
C3_MalformedAborts ==
    /\ ( /\ Ran("clean_invalid_values")
         /\ HasCol(prev, cClv)
         /\ \E i \in DOMAIN prev.rows : Malformed(Cell(prev, i, cClv)) )
           => /\ failedAt = "clean_invalid_values"
              /\ pc = "aborted"
              /\ output = NoTable
    /\ failedAt = "formatting_data_types"
           => \E i \in DOMAIN prev.rows :
                 LET x == Cell(prev, i, cComplaints)
                 IN /\ IsStr(x)
                    /\ \/ Len(StrSplit(x.s, "/")) < 2
                       \/ ~IntOk(StrSplit(x.s, "/")[2])

C3_Witness ==
    /\ failedAt = "clean_invalid_values"
    /\ HasRequired(prev)
    /\ \E i \in DOMAIN prev.rows : Cell(prev, i, cClv) = Str(<<".">>)

\* the corrections of section 4.2, column by column
Corrections(name) ==
    IF name = cGender
    THEN {<<wF, wF>>, <<wM, wM>>, <<wFemale, wF>>, <<wmale, wM>>,
          <<wMale, wM>>, <<wFemal, wF>>}
    ELSE IF name = cState
    THEN {<<wAZ, wArizona>>, <<wCali, wCalifornia>>, <<wWA, wWashington>>}
    ELSE IF name = cEducation
    THEN {<<wBachelors, wBachelor>>}
    ELSE {<<wSportsCar, wLuxury>>, <<wLuxurySUV, wLuxury>>,
          <<wLuxuryCar, wLuxury>>}

CategoricalCols == {cGender, cState, cEducation, cVehicleClass}

(* C4: after clean_invalid_values, each cell of gender, state, education    *)
(* and vehicle_class is the mapping's image when its whole value is a key   *)
(* of the column's mapping, and the original value otherwise.               *)
C4_MappingApplied ==
    Returned("clean_invalid_values")
        => \A name \in CategoricalCols : \A i \in DOMAIN prev.rows :
              LET x == Cell(prev, i, name)
                  y == Cell(table, i, name)
              IN /\ \A kv \in Corrections(name) :
                        x = Str(kv[1]) => y = Str(kv[2])
                 /\ (\A kv \in Corrections(name) : x # Str(kv[1])) => y = x

C4_Witness ==
    /\ Returned("clean_invalid_values")
    /\ \E i \in DOMAIN prev.rows :
          /\ Cell(prev, i, cGender) = Str(wFemal)
          /\ Cell(table, i, cGender) = Str(wF)
          /\ Cell(prev, i, cVehicleClass) = Str(wLuxury)
    /\ \E i \in DOMAIN prev.rows :
          /\ Cell(prev, i, cGender) = Str(wFEMALE)
          /\ Cell(table, i, cGender) = Str(wFEMALE)
          /\ Cell(table, i, cState) = Str(wWashington)

Canonical(name) ==
    IF name = cGender THEN {wF, wM}
    ELSE IF name = cState THEN {wArizona, wCalifornia, wWashington, wNevada}
    ELSE IF name = cEducation THEN {wBachelor, wHighSchool}
    ELSE {wLuxury, wFourDoorCar}

(* C5 as stated: after clean_invalid_values the columns gender, state,      *)
(* education and vehicle_class hold only values of their canonical sets     *)
(* (a missing value apart).                                                 *)
C5_Original ==
    Returned("clean_invalid_values")
        => \A name \in CategoricalCols : \A i \in DOMAIN table.rows :
              LET y == Cell(table, i, name)
              IN IsNaN(y) \/ (IsStr(y) /\ y.s \in Canonical(name))

(* C5 amended: after clean_invalid_values no cell of gender, state,         *)
(* education or vehicle_class holds a key that its column's mapping         *)
(* rewrites (Female, male, Male, Femal; AZ, Cali, WA; Bachelors; Sports     *)
(* Car, Luxury SUV, Luxury Car), and a cell outside the canonical set is a  *)
(* value the mapping does not know, left as it was.                         *)
C5_NoRewrittenKeyLeft ==
    Returned("clean_invalid_values")
        => \A name \in CategoricalCols : \A i \in DOMAIN table.rows :
              LET y == Cell(table, i, name)
              IN /\ \A kv \in Corrections(name) :
                        kv[1] # kv[2] => y # Str(kv[1])
                 /\ (IsStr(y) /\ y.s \notin Canonical(name))
                        => y = Cell(prev, i, name)

C5_Witness ==
    /\ Returned("clean_invalid_values")
    /\ \E i \in DOMAIN table.rows :
          /\ Cell(prev, i, cGender) = Str(wFemale)
          /\ Cell(table, i, cGender) = Str(wF)
    /\ \E i \in DOMAIN table.rows : Cell(table, i, cGender) = Str(wFEMALE)

(* C6: each of the five steps that returns normally leaves the number of    *)
(* rows and the number of columns as they were before it.                   *)
C6_ShapePreserved ==
    (\E step \in Steps : Returned(step))
        => /\ NRows(table) = NRows(prev)
           /\ NCols(table) = NCols(prev)
           /\ \A i \in DOMAIN table.rows : Len(table.rows[i]) = NCols(prev)

C6_Witness ==
    /\ Returned("fill_missing_values")
    /\ NRows(table) > 1
    /\ \E i \in DOMAIN prev.rows : \E j \in numerical_cols(prev) :
          IsNaN(prev.rows[i][j]) /\ ~IsNaN(table.rows[i][j])

(* C7: clean_column_names is idempotent: a second application leaves the    *)
(* column names as the first one made them.                                 *)
C7_Idempotent ==
    ( /\ Len(trace) >= 2
      /\ \A k \in DOMAIN trace : trace[k] = "clean_column_names" )
        => table.columns = prev.columns

C7_Witness ==
    /\ Len(trace) = 2
    /\ Ran("clean_column_names")
    /\ file.header[1] = <<"S", "T", " ">>
    /\ table.columns[1] = <<"s", "t", "a", "t", "e", "_">>

(* C8: formatting_data_types replaces every textual                         *)
(* number_of_open_complaints of three slash-separated segments by the       *)
(* integer of its middle segment ("1/0/00" gives 0, "1/5/00" gives 5) and   *)
(* leaves every value that is not textual unchanged.                        *)
C8_MiddleSegment ==
    Returned("formatting_data_types")
        => \A i \in DOMAIN prev.rows :
              LET x == Cell(prev, i, cComplaints)
                  y == Cell(table, i, cComplaints)
                  segs == StrSplit(x.s, "/")
              IN /\ (IsStr(x) /\ Len(segs) = 3)
                        => y = Num(DigitsValue(segs[2]), 1)
                 /\ x = Str(t1_0_00) => y = Num(0, 1)
                 /\ x = Str(t1_5_00) => y = Num(5, 1)
                 /\ ~IsStr(x) => y = x

C8_Witness ==
    /\ Returned("formatting_data_types")
    /\ \E i \in DOMAIN prev.rows :
          /\ Cell(prev, i, cComplaints) = Str(t1_5_00)
          /\ Cell(table, i, cComplaints) = Num(5, 1)
    /\ \E i \in DOMAIN prev.rows :
          /\ IsNaN(Cell(prev, i, cComplaints))
          /\ IsNaN(Cell(table, i, cComplaints))

\* x is the r-th smallest of the non-missing values of the cells
IsOrderStat(cells, x, r) ==
    /\ \E i \in DOMAIN cells : cells[i] = x /\ IsNum(x)
    /\ Cardinality({i \in DOMAIN cells :
                       IsNum(cells[i]) /\ RatLess(cells[i], x)}) <= r - 1
    /\ Cardinality({i \in DOMAIN cells :
                       IsNum(cells[i]) /\ ~RatLess(x, cells[i])}) >= r

\* m is the median of the non-missing values of the cells
IsMedian(cells, m) ==
    LET k == Cardinality({i \in DOMAIN cells : IsNum(cells[i])})
    IN /\ IsNum(m)
       /\ IF k % 2 = 1 THEN IsOrderStat(cells, m, (k + 1) \div 2)
          ELSE \E ia, ib \in DOMAIN cells :
                  LET a == cells[ia]
                      b == cells[ib]
                  IN /\ IsOrderStat(cells, a, k \div 2)
                     /\ IsOrderStat(cells, b, (k \div 2) + 1)
                     /\ 2 * m.n * a.d * b.d = m.d * (a.n * b.d + b.n * a.d)

(* C9: after fill_missing_values, a numeric column that had a non-missing   *)
(* value has no missing value left: each missing cell holds the median of   *)
(* the column's non-missing values and the other cells are unchanged;       *)
(* columns that are not numeric are untouched.                              *)
C9_MedianFill ==
    Ran("fill_missing_values")
        => \A j \in DOMAIN prev.columns :
              IF prev.dtypes[j] \in NumericDtypes
              THEN (\E i \in DOMAIN prev.rows : IsNum(prev.rows[i][j]))
                      => \A i \in DOMAIN prev.rows :
                            /\ ~IsNaN(table.rows[i][j])
                            /\ IsNaN(prev.rows[i][j])
                                  => IsMedian(Column(prev, j), table.rows[i][j])
                            /\ ~IsNaN(prev.rows[i][j])
                                  => table.rows[i][j] = prev.rows[i][j]
              ELSE Column(table, j) = Column(prev, j)

C9_Witness ==
    /\ Len(trace) = 1
    /\ Ran("fill_missing_values")
    /\ \E i \in DOMAIN prev.rows :
          /\ IsNaN(prev.rows[i][1])
          /\ table.rows[i][1] = Num(1, 1)
          /\ IsNaN(table.rows[i][2])
    /\ {prev.rows[i][1] : i \in DOMAIN prev.rows}
           = {NaN, Num(0, 1), Num(1, 1), Num(5, 2)}

(* C10: main() runs read_csv, the five steps, to_csv and the notice in      *)
(* that order, and an exception in a step ends the run there: no later      *)
(* step runs, nothing is written and no notice is printed.  A textual       *)
(* number_of_open_complaints with fewer than two segments raises in         *)
(* formatting_data_types, and a missing value left in a numeric column      *)
(* raises in convert_numeric_to_integers.                                   *)
C10_OrderAndAbort ==
    /\ Len(trace) <= Len(Order)
    /\ \A k \in DOMAIN trace : trace[k] = Order[k]
    /\ pc = "aborted" <=> failedAt # "none"
    /\ failedAt # "none"
           => Ran(failedAt) /\ output = NoTable /\ notice = FALSE
    /\ pc \notin {"aborted", "done"} => pc = Order[Len(trace) + 1]
    /\ notice => output # NoTable
    /\ output # NoTable => Len(trace) >= 7
    /\ ( /\ Ran("formatting_data_types")
         /\ \E i \in DOMAIN prev.rows :
               LET x == Cell(prev, i, cComplaints)
               IN IsStr(x) /\ Len(StrSplit(x.s, "/")) < 2 )
           => failedAt = "formatting_data_types"
    /\ ( /\ Ran("convert_numeric_to_integers")
         /\ \E j \in DOMAIN prev.columns :
               /\ prev.dtypes[j] \in NumericDtypes
               /\ \E i \in DOMAIN prev.rows : IsNaN(prev.rows[i][j]) )
           => failedAt = "convert_numeric_to_integers"

C10_Witness ==
    /\ pc = "aborted"
    /\ failedAt = "convert_numeric_to_integers"
    /\ \E j \in DOMAIN prev.columns :
          /\ prev.dtypes[j] = "float64"
          /\ \A i \in DOMAIN prev.rows : IsNaN(prev.rows[i][j])

====
